---- MODULE Spec2Model ----
(***************************************************************************)
(* Pointed: Single<T> (unique owner of a heap value) and Ref<T> (observer  *)
(* linked into an intrusive doubly-linked chain rooted at Single::top).    *)
(*                                                                         *)
(* Handles are modelled as storage slots.  A destroyed handle's slot is    *)
(* taken again by a later construction (the first free slot is used),      *)
(* which is how a stale address kept in a link field (top / last / next)   *)
(* comes to designate another handle.  The library only ever stores        *)
(* through a link, so a store through a link to a slot that holds no       *)
(* handle is lost: the next construction in that slot initialises all      *)
(* three fields.                                                           *)
(*                                                                         *)
(* The declared type T of a handle is a compile-time property: the link    *)
(* fields are void* and the only run-time effect of a type is the outcome  *)
(* of dynamic_cast against the value's dynamic type, which heap records.   *)
(*                                                                         *)
(* A behaviour is a host program of at most MaxOps operations.             *)
(***************************************************************************)
EXTENDS Integers, FiniteSets

\* ---------------------------------------------------------------- bounds
NRefs == 3
NSingles == 2
MaxValues == 2
MaxDeleteCount == 2
\* Length of the programs explored: the number of operations a run performs.
MaxOps == 5

Null == 0
Refs == 1..NRefs
Singles == 1..NSingles
Values == 1..MaxValues

\* The class hierarchy the casts are exercised on: Derived : Base, and a
\* polymorphic class Unrelated.
Types == {"Base", "Derived", "Unrelated"}
\* The classes heap values are created with.
ValueTypes == {"Base", "Derived"}
NoType == "-"

\* dynamic_cast<T*>(p) succeeds iff the dynamic type D of *p is T or derives
\* from T.
IsA(D, T) == D = T \/ (D = "Derived" /\ T = "Base")

VARIABLES ref, single, heap, ev, ops
vars == <<ref, single, heap, ev, ops>>

\* ---------------------------------------------------------------- storage
NoRef == [live |-> FALSE, pointer |-> Null, last |-> Null, next |-> Null]
NoSingle == [live |-> FALSE, pointer |-> Null, top |-> Null]
NoValue == [type |-> NoType, deleted |-> 0]

\* Ref() : the default member initialisers.
NewRef == [live |-> TRUE, pointer |-> Null, last |-> Null, next |-> Null]

\* The last operation performed: the handle it was applied to (or built),
\* its source operand, what it threw, and the value involved (the pointer a
\* cast or dereference produced, operator bool as 1/0, the value the handle
\* observed before it was rebound or destroyed).
Event(op, x, y, exc, val) == [op |-> op, x |-> x, y |-> y, exc |-> exc, val |-> val]

\* A store through a link field: ((Ref<T>*)p)->last = v.
SetLast(R, p, v) == IF R[p].live THEN [R EXCEPT ![p].last = v] ELSE R
SetNext(R, p, v) == IF R[p].live THEN [R EXCEPT ![p].next = v] ELSE R

nullify(R, r) ==
    IF R[r].live
    THEN [R EXCEPT ![r].pointer = Null, ![r].last = Null, ![r].next = Null]
    ELSE R

RECURSIVE invalidate(_, _)
invalidate(R, r) ==
    LET R1 == nullify(R, r)
    IN IF R1[r].next # Null THEN invalidate(R1, R1[r].next) ELSE R1

\* delink() that clears the neighbour it unlinks from.
delink_ClearsNext(R, r) ==
    LET R1 == IF R[r].next # Null THEN nullify(R, R[r].next) ELSE R
    IN IF R1[r].last # Null THEN SetNext(R1, R1[r].last, R1[r].next) ELSE R1

delink(R, r) ==
    LET R1 == IF R[r].next # Null THEN SetLast(R, R[r].next, R[r].last) ELSE R
    IN IF R1[r].last # Null THEN SetNext(R1, R1[r].last, R1[r].next) ELSE R1

\* Ref<T>::operator=(const Ref<T>& other), applied to this = r.
AssignFromRef(R, r, o) ==
    LET R1 == nullify(delink(R, r), r)
        R2 == [R1 EXCEPT ![r].pointer = R1[o].pointer]
        R3 == [R2 EXCEPT ![r].next = o]
        R4 == IF R3[o].last # Null
              THEN LET R3a == [R3 EXCEPT ![r].last = R3[o].last]
                   IN SetNext(R3a, R3a[r].last, r)
              ELSE R3
    IN [R4 EXCEPT ![o].last = r]

\* Ref<T>::operator=(const Single<T>& single), applied to this = r: the
\* Ref side; single.top = this is done by the calling action.
AssignFromSingle(R, r, sp, top) ==
    LET R1 == nullify(delink(R, r), r)
        R2 == [R1 EXCEPT ![r].pointer = sp]
    IN IF top # Null
       THEN LET R3 == [R2 EXCEPT ![r].next = top]
            IN SetLast(R3, top, r)
       ELSE R2

\* Ref<T>::operator bool()
OperatorBool(R, r) == R[r].pointer # Null

\* operator*() without the null check.
OperatorStar_Unchecked(R, r) == [exc |-> "none", val |-> R[r].pointer]

\* Ref<T>::operator*() / operator->(): what is thrown and the pointer used.
OperatorStar(R, r) ==
    IF ~(R[r].pointer # Null)
    THEN [exc |-> "InvalidRefException", val |-> Null]
    ELSE [exc |-> "none", val |-> R[r].pointer]

Min(a, b) == IF a < b THEN a ELSE b

\* Storage for a new handle: the first slot that holds none.
FreeRef(R, r) == ~R[r].live /\ \A q \in Refs : q < r => R[q].live
FreeSingle(S, s) == ~S[s].live /\ \A q \in Singles : q < s => S[q].live

\* One more operation of the program.
Step == ops < MaxOps /\ ops' = ops + 1

\* ---------------------------------------------------------------- Init
Init ==
    /\ ref = [r \in Refs |-> NoRef]
    /\ single = [s \in Singles |-> NoSingle]
    /\ heap = [v \in Values |-> NoValue]
    /\ ev = Event("init", Null, Null, "none", 0)
    /\ ops = 0

\* ---------------------------------------------------------------- Single
\* explicit Single(T*) / my<T>(): a fresh heap value of dynamic type D.
SingleNew(s, D) ==
    /\ Step
    /\ FreeSingle(single, s)
    /\ \E v \in Values :
        /\ heap[v].type = NoType
        /\ \A w \in Values : w < v => heap[w].type # NoType
        /\ heap' = [heap EXCEPT ![v] = [type |-> D, deleted |-> 0]]
        /\ single' = [single EXCEPT ![s] =
                        [live |-> TRUE, pointer |-> v, top |-> Null]]
    /\ ev' = Event("Single", s, Null, "none", 0)
    /\ UNCHANGED ref

\* The move constructor leaving other.pointer in place.
SingleMove_KeepsSourcePointer(d, s) ==
    /\ Step
    /\ FreeSingle(single, d)
    /\ single[s].live
    /\ single' = [single EXCEPT
                    ![d] = [live |-> TRUE, pointer |-> single[s].pointer,
                            top |-> single[s].top],
                    ![s].top = Null]
    /\ ev' = Event("SingleMove", d, s, "none", single[s].pointer)
    /\ UNCHANGED <<ref, heap>>

\* The move constructor leaving other.top in place.
SingleMove_KeepsSourceTop(d, s) ==
    /\ Step
    /\ FreeSingle(single, d)
    /\ single[s].live
    /\ single' = [single EXCEPT
                    ![d] = [live |-> TRUE, pointer |-> single[s].pointer,
                            top |-> single[s].top],
                    ![s].pointer = Null]
    /\ ev' = Event("SingleMove", d, s, "none", single[s].pointer)
    /\ UNCHANGED <<ref, heap>>

\* Single(Single<T>&& other) noexcept
SingleMove(d, s) ==
    /\ Step
    /\ FreeSingle(single, d)
    /\ single[s].live
    /\ single' = [single EXCEPT
                    ![d] = [live |-> TRUE, pointer |-> single[s].pointer,
                            top |-> single[s].top],
                    ![s].pointer = Null,
                    ![s].top = Null]
    /\ ev' = Event("SingleMove", d, s, "none", single[s].pointer)
    /\ UNCHANGED <<ref, heap>>

\* The cross-type move taking other.top and emptying other before the check.
SingleCast_TransfersBeforeCheck(d, s, T) ==
    /\ Step
    /\ FreeSingle(single, d)
    /\ single[s].live
    /\ LET p == single[s].pointer
           pointerNew == IF p # Null /\ IsA(heap[p].type, T) THEN p ELSE Null
       IN IF pointerNew = Null
          THEN /\ ev' = Event("SingleCast", d, s, "bad_cast", 0)
               /\ single' = [single EXCEPT ![s].pointer = Null, ![s].top = Null]
          ELSE /\ single' = [single EXCEPT
                               ![d] = [live |-> TRUE, pointer |-> pointerNew,
                                       top |-> single[s].top],
                               ![s].pointer = Null,
                               ![s].top = Null]
               /\ ev' = Event("SingleCast", d, s, "none", 0)
    /\ UNCHANGED <<ref, heap>>

\* template<class O> Single(Single<O>&& other), T # O
SingleCast(d, s, T) ==
    /\ Step
    /\ FreeSingle(single, d)
    /\ single[s].live
    /\ LET p == single[s].pointer
           pointerNew == IF p # Null /\ IsA(heap[p].type, T) THEN p ELSE Null
       IN IF pointerNew = Null
          THEN /\ ev' = Event("SingleCast", d, s, "bad_cast", 0)
               /\ UNCHANGED single
          ELSE /\ single' = [single EXCEPT
                               ![d] = [live |-> TRUE, pointer |-> pointerNew,
                                       top |-> single[s].top],
                               ![s].pointer = Null,
                               ![s].top = Null]
               /\ ev' = Event("SingleCast", d, s, "none", 0)
    /\ UNCHANGED <<ref, heap>>

\* ~Single()
SingleDestroy(s) ==
    /\ Step
    /\ single[s].live
    /\ LET p == single[s].pointer
           top == single[s].top
       IN /\ heap' = IF p # Null
                     THEN [heap EXCEPT ![p].deleted = Min(@ + 1, MaxDeleteCount)]
                     ELSE heap
          /\ ref' = IF top # Null THEN invalidate(ref, top) ELSE ref
    /\ single' = [single EXCEPT ![s] = NoSingle]
    /\ ev' = Event("~Single", s, single[s].top, "none", single[s].pointer)

\* ---------------------------------------------------------------- Ref
\* Ref()
RefDefault(r) ==
    /\ Step
    /\ FreeRef(ref, r)
    /\ ref' = [ref EXCEPT ![r] = NewRef]
    /\ ev' = Event("Ref", r, Null, "none", 0)
    /\ UNCHANGED <<single, heap>>

\* ~Ref()
RefDestroy(r) ==
    /\ Step
    /\ ref[r].live
    /\ ref' = [delink(ref, r) EXCEPT ![r] = NoRef]
    /\ ev' = Event("~Ref", r, Null, "none", ref[r].pointer)
    /\ UNCHANGED <<single, heap>>

\* Ref(const Ref<T>& other) / refer(const Ref<T>&)
RefCopy(r, o) ==
    /\ Step
    /\ FreeRef(ref, r)
    /\ ref[o].live
    /\ ref' = AssignFromRef([ref EXCEPT ![r] = NewRef], r, o)
    /\ ev' = Event("RefCopy", r, o, "none", 0)
    /\ UNCHANGED <<single, heap>>

\* Ref<T>::operator=(const Ref<T>& other)
RefAssign(r, o) ==
    /\ Step
    /\ ref[r].live
    /\ ref[o].live
    /\ ref' = AssignFromRef(ref, r, o)
    /\ ev' = Event("RefAssign", r, o, "none", ref[r].pointer)
    /\ UNCHANGED <<single, heap>>

\* Ref(const Single<T>& single) / refer(const Single<T>&)
RefBind(r, s) ==
    /\ Step
    /\ FreeRef(ref, r)
    /\ single[s].live
    /\ ref' = AssignFromSingle([ref EXCEPT ![r] = NewRef], r,
                               single[s].pointer, single[s].top)
    /\ single' = [single EXCEPT ![s].top = r]
    /\ ev' = Event("RefBind", r, s, "none", 0)
    /\ UNCHANGED heap

\* Ref<T>::operator=(const Single<T>& single)
RefRebind(r, s) ==
    /\ Step
    /\ ref[r].live
    /\ single[s].live
    /\ ref' = AssignFromSingle(ref, r, single[s].pointer, single[s].top)
    /\ single' = [single EXCEPT ![s].top = r]
    /\ ev' = Event("RefRebind", r, s, "none", ref[r].pointer)
    /\ UNCHANGED heap

\* RefCast linking its result in front of the source whatever the cast gave.
RefCast_LinksOnFailure(res, r, To) ==
    /\ Step
    /\ FreeRef(ref, res)
    /\ ref[r].live
    /\ \E pointerNew \in {Null, ref[r].pointer} :
        /\ ref[r].pointer # Null /\ heap[ref[r].pointer].deleted = 0
              => (pointerNew # Null <=> IsA(heap[ref[r].pointer].type, To))
        /\ LET R0 == [ref EXCEPT ![res] = NewRef]
               R1 == [R0 EXCEPT ![res].pointer = pointerNew]
               R2 == [R1 EXCEPT ![res].next = r]
               R3 == IF R2[r].last # Null
                     THEN LET R2a == [R2 EXCEPT ![res].last = R2[r].last]
                          IN SetNext(R2a, R2a[res].last, res)
                     ELSE R2
           IN ref' = [R3 EXCEPT ![r].last = res]
        /\ ev' = Event("RefCast", res, r, "none", pointerNew)
    /\ UNCHANGED <<single, heap>>

\* RefCast<To>(ref): res is the slot of the returned Ref<To>.  dynamic_cast
\* on a pointer to a deleted value is undefined: either outcome.
RefCast(res, r, To) ==
    /\ Step
    /\ FreeRef(ref, res)
    /\ ref[r].live
    /\ \E pointerNew \in {Null, ref[r].pointer} :
        /\ ref[r].pointer # Null /\ heap[ref[r].pointer].deleted = 0
              => (pointerNew # Null <=> IsA(heap[ref[r].pointer].type, To))
        /\ IF pointerNew # Null
           THEN LET R0 == [ref EXCEPT ![res] = NewRef]
                    R1 == [R0 EXCEPT ![res].pointer = pointerNew]
                    R2 == [R1 EXCEPT ![res].next = r]
                    R3 == IF R2[r].last # Null
                          THEN LET R2a == [R2 EXCEPT ![res].last = R2[r].last]
                               IN SetNext(R2a, R2a[res].last, res)
                          ELSE R2
                IN ref' = [R3 EXCEPT ![r].last = res]
           ELSE ref' = [ref EXCEPT ![res] = NewRef]
        /\ ev' = Event("RefCast", res, r, "none", pointerNew)
    /\ UNCHANGED <<single, heap>>

\* Ref<T>::operator*() / operator->()
RefDeref(r) ==
    /\ Step
    /\ ref[r].live
    /\ ev' = Event("deref", r, Null, OperatorStar(ref, r).exc, OperatorStar(ref, r).val)
    /\ UNCHANGED <<ref, single, heap>>

\* Ref<T>::operator bool()
RefBool(r) ==
    /\ Step
    /\ ref[r].live
    /\ ev' = Event("bool", r, Null, "none", IF OperatorBool(ref, r) THEN 1 ELSE 0)
    /\ UNCHANGED <<ref, single, heap>>

\* ---------------------------------------------------------------- Next
Next ==
    \/ \E s \in Singles, D \in ValueTypes : SingleNew(s, D)
    \/ \E d \in Singles, s \in Singles : SingleMove(d, s)
    \/ \E d \in Singles, s \in Singles, T \in Types : SingleCast(d, s, T)
    \/ \E s \in Singles : SingleDestroy(s)
    \/ \E r \in Refs : RefDefault(r)
    \/ \E r \in Refs : RefDestroy(r)
    \/ \E r \in Refs, o \in Refs : RefCopy(r, o)
    \/ \E r \in Refs, o \in Refs : RefAssign(r, o)
    \/ \E r \in Refs, s \in Singles : RefBind(r, s)
    \/ \E r \in Refs, s \in Singles : RefRebind(r, s)
    \/ \E res \in Refs, r \in Refs, To \in Types : RefCast(res, r, To)
    \/ \E r \in Refs : RefDeref(r)
    \/ \E r \in Refs : RefBool(r)

Spec == Init /\ [][Next]_vars

\* ---------------------------------------------------------------- claims
\* The live Refs whose observing pointer is v.
Observers(R, v) == {r \in Refs : R[r].live /\ R[r].pointer = v}

\* r is in a chain: it has a neighbour or is some Single's chain head.
Linked(r) ==
    \/ ref[r].last # Null
    \/ ref[r].next # Null
    \/ \E s \in Singles : single[s].live /\ single[s].top = r

\* C1: destroying a Single leaves every Ref that observed its value reporting
\* invalid (operator bool false) and throwing InvalidRefException on
\* dereference, however the Ref was bound.
C1_OwnerDestroyInvalidatesAll ==
    [][\A s \in Singles :
          (SingleDestroy(s) /\ single[s].pointer # Null)
          => \A r \in Observers(ref, single[s].pointer) :
                /\ ~OperatorBool(ref', r)
                /\ OperatorStar(ref', r).exc = "InvalidRefException"]_vars

\* C2: after a successful RefCast the result observes the same value as its
\* source and is linked next to it, and the destruction of the Single that
\* holds the value invalidates the result and the source together.
C2_CastInvalidatedWithSource ==
    [][/\ \A res \in Refs, r \in Refs, To \in Types :
             (RefCast(res, r, To) /\ ev'.val # Null)
             => /\ ref'[res].pointer = ref[r].pointer
                /\ ref'[res].next = r
                /\ ref'[r].last = res
       /\ \A s \in Singles :
             (/\ ev.op = "RefCast"
              /\ ev.val # Null
              /\ single[s].pointer = ev.val
              /\ SingleDestroy(s))
             => /\ ref'[ev.x].pointer = Null
                /\ ref'[ev.y].pointer = Null]_vars

\* C3: rebinding a Ref bound to Single A's value to Single B (from B or from
\* a Ref bound to B) leaves the other Refs bound to A's value bound, and makes
\* the Ref a member of B's chain only: destroying A then leaves it untouched
\* and destroying B invalidates it.
C3_RebindMovesBetweenChains ==
    [][/\ \A r \in Refs, s \in Singles :
             (RefRebind(r, s) /\ ref[r].pointer # Null
                /\ ref[r].pointer # single[s].pointer)
             => \A q \in Observers(ref, ref[r].pointer) \ {r} :
                   ref'[q].pointer = ref[q].pointer
       /\ \A s \in Singles :
             (/\ ev.op \in {"RefRebind", "RefAssign"}
              /\ ev.val # Null
              /\ ref[ev.x].pointer # Null
              /\ ref[ev.x].pointer # ev.val
              /\ SingleDestroy(s))
             => /\ single[s].pointer = ev.val => ref'[ev.x] = ref[ev.x]
                /\ single[s].pointer = ref[ev.x].pointer
                      => ref'[ev.x].pointer = Null]_vars

\* C4: destroying one Ref leaves every other Ref's observing pointer (so its
\* validity and the value it observes) unchanged, and touches no value and no
\* Single.
C4_RefDestroyLeavesOthers ==
    [][\A r \in Refs :
          RefDestroy(r)
          => /\ \A q \in Refs \ {r} :
                   /\ ref'[q].live = ref[q].live
                   /\ ref'[q].pointer = ref[q].pointer
                   /\ OperatorBool(ref', q) = OperatorBool(ref, q)
             /\ heap' = heap
             /\ single' = single]_vars

\* A Ref in the middle of a chain of three has just been destroyed: the two
\* others are still bound to the value it observed and linked to each other.
C4_Witness ==
    /\ ev.op = "~Ref"
    /\ ev.val # Null
    /\ \E a \in Refs, b \in Refs, s \in Singles :
          /\ a # b
          /\ single[s].live /\ single[s].pointer = ev.val /\ single[s].top = a
          /\ {a, b} \subseteq Observers(ref, ev.val)
          /\ ref[a].next = b /\ ref[b].last = a
          /\ ref[a].last = Null /\ ref[b].next = Null
          /\ heap[ev.val].deleted = 0

C6_FailedOwnerCastLeavesSource ==
    [][\A d \in Singles, s \in Singles, T \in Types :
          (SingleCast(d, s, T)
             /\ (single[s].pointer = Null
                   \/ ~IsA(heap[single[s].pointer].type, T)))
          => /\ ev'.exc = "bad_cast"
             /\ single' = single
             /\ ref' = ref
             /\ heap' = heap]_vars

\* A cross-type move has just failed on a Single that holds a value observed
\* by a Ref at its chain head.
C6_Witness ==
    /\ ev.op = "SingleCast"
    /\ ev.exc = "bad_cast"
    /\ single[ev.y].live
    /\ single[ev.y].pointer # Null
    /\ single[ev.y].top # Null
    /\ single[ev.y].top \in Observers(ref, single[ev.y].pointer)
    /\ ~single[ev.x].live

\* C7: RefCast never throws; when the source is empty or the type check fails
\* the result is an empty Ref with no links, and no field of any other handle
\* changes.
C7_FailedRefCastIsEmpty ==
    [][\A res \in Refs, r \in Refs, To \in Types :
          RefCast(res, r, To)
          => /\ ev'.exc = "none"
             /\ (ref[r].pointer = Null
                   \/ (heap[ref[r].pointer].deleted = 0
                         /\ ~IsA(heap[ref[r].pointer].type, To)))
                   => ev'.val = Null
             /\ ev'.val = Null
                   => /\ ref'[res] = NewRef
                      /\ \A q \in Refs \ {res} : ref'[q] = ref[q]
                      /\ single' = single
                      /\ heap' = heap]_vars

\* A RefCast to an incompatible type has just returned an empty Ref while its
\* source is the chain head of a live Single and still observes the value.
C7_Witness ==
    /\ ev.op = "RefCast"
    /\ ev.val = Null
    /\ ref[ev.x] = NewRef
    /\ ref[ev.y].live
    /\ ref[ev.y].pointer # Null
    /\ heap[ref[ev.y].pointer].deleted = 0
    /\ \E s \in Singles : single[s].live /\ single[s].top = ev.y
                             /\ single[s].pointer = ref[ev.y].pointer

\* C8: a dereference throws InvalidRefException exactly when the observing
\* pointer is null and otherwise yields the observed value; operator bool is
\* true iff the pointer is non-null; a dereference right after a true
\* operator bool on the same Ref does not throw.
C8_DerefThrowsIffNull ==
    [][\A r \in Refs :
          /\ RefDeref(r)
                => /\ ev'.exc = "InvalidRefException" <=> ref[r].pointer = Null
                   /\ ev'.exc # "InvalidRefException"
                         => ev'.exc = "none" /\ ev'.val = ref[r].pointer
                   /\ ref' = ref
          /\ RefBool(r)
                => /\ ev'.val = 1 <=> ref[r].pointer # Null
                   /\ ev'.exc = "none"
                   /\ ref' = ref
          /\ (ev.op = "bool" /\ ev.x = r /\ ev.val = 1 /\ RefDeref(r))
                => ev'.exc = "none"]_vars

\* A dereference has just thrown on a Ref emptied by its owner's destruction.
C8_Witness ==
    /\ ev.op = "deref"
    /\ ev.exc = "InvalidRefException"
    /\ ref[ev.x].pointer = Null
    /\ \E v \in Values : heap[v].deleted = 1

\* The live Singles that hold value v.
Holders(v) == {s \in Singles : single[s].live /\ single[s].pointer = v}

\* C9: every created value is held by exactly one live Single and not yet
\* destroyed, or held by none and destroyed exactly once; destroying a Single
\* that holds no value destroys nothing.
C9_ValueDestroyedOnce ==
    \A v \in Values :
       IF heap[v].type = NoType
       THEN Holders(v) = {} /\ heap[v].deleted = 0
       ELSE \/ Cardinality(Holders(v)) = 1 /\ heap[v].deleted = 0
            \/ Holders(v) = {} /\ heap[v].deleted = 1

\* A value moved to a second Single was destroyed with it, once, while the
\* moved-from Single is still alive and a Ref was bound.
C9_Witness ==
    /\ ev.op = "~Single"
    /\ ev.val # Null
    /\ ev.y # Null
    /\ heap[ev.val].deleted = 1
    /\ \E s \in Singles : single[s].live /\ single[s].pointer = Null

\* C10: a Ref's observing pointer is non-null iff the Ref is linked into a
\* chain (it has a neighbour or is a Single's chain head).
C10_PointerIffLinked ==
    \A r \in Refs : ref[r].live => (ref[r].pointer # Null <=> Linked(r))

\* The Refs met by following next links from h, h included; the walk stops at
\* a null link, at a slot that holds no Ref, and at a Ref already met.
RECURSIVE ChainFrom(_, _, _)
ChainFrom(R, h, seen) ==
    IF h = Null \/ h \in seen \/ ~R[h].live
    THEN seen
    ELSE ChainFrom(R, R[h].next, seen \cup {h})

Chain(R, h) == ChainFrom(R, h, {})

\* C11: chain links are mutually consistent: for all live Refs a and b,
\* a.next = b iff b.last = a.
C11_LinksMutuallyConsistent ==
    \A a \in Refs, b \in Refs :
       (ref[a].live /\ ref[b].live)
       => (ref[a].next = b <=> ref[b].last = a)

\* C12: the invalidation a Single's destruction starts at its chain head
\* visits every Ref of the chain: each Ref reachable from the head by next
\* links ends with its observing pointer and both links cleared.
C12_InvalidateWalksChain ==
    [][\A s \in Singles :
          (SingleDestroy(s) /\ single[s].top # Null)
          => \A r \in Chain(ref, single[s].top) : ref'[r] = NewRef]_vars

\* C13: constructing or assigning a Ref from a Single that holds a value
\* makes the Ref observe that value and become the chain head: its last link
\* is empty, its next link is the former head, whose last link now is this
\* Ref, and the former chain members stay bound and reachable from the head.
C13_BindBecomesHead ==
    [][\A r \in Refs, s \in Singles :
          ((RefBind(r, s) \/ RefRebind(r, s)) /\ single[s].pointer # Null)
          => /\ ref'[r].pointer = single[s].pointer
             /\ single'[s].top = r
             /\ ref'[r].last = Null
             /\ ref'[r].next = single[s].top
             /\ single[s].top # Null => ref'[single[s].top].last = r
             /\ \A q \in Chain(ref, single[s].top) \ {r} :
                   /\ ref'[q].pointer = ref[q].pointer
                   /\ q \in Chain(ref', single'[s].top)]_vars

\* C14: copy-constructing or assigning a Ref from another Ref: a source that
\* observes a value gives a result that observes the same value and is the
\* source's neighbour; a source that is empty and unlinked gives an empty
\* result and stays empty and unlinked.
C14_CopyLinksNextToSource ==
    [][\A r \in Refs, o \in Refs :
          ((RefCopy(r, o) \/ RefAssign(r, o)) /\ r # o)
          => IF ref[o].pointer # Null
             THEN /\ ref'[r].pointer = ref[o].pointer
                  /\ ref'[r].next = o
                  /\ ref'[o].last = r
             ELSE /\ ref'[r].pointer = Null
                  /\ ref[o] = NewRef => ref'[o] = NewRef]_vars

\* The step is an operation on handles other than Ref r: r is neither the
\* handle it is applied to nor its source operand.
OnOtherHandles(r) ==
    \/ ev'.op \in {"Single", "SingleMove", "SingleCast", "~Single"}
    \/ /\ ev'.op \in {"Ref", "~Ref", "RefBind", "RefRebind", "deref", "bool"}
       /\ ev'.x # r
    \/ /\ ev'.op \in {"RefCopy", "RefAssign", "RefCast"}
       /\ ev'.x # r
       /\ ev'.y # r

\* C15: a Ref just invalidated by its owner's destruction is empty with no
\* links, an operation on other handles leaves it so, and rebinding it to a
\* Single that holds a value makes it valid, observing that value, and the
\* Single's chain head.
C15_InvalidatedStaysEmpty ==
    [][(ev.op = "~Single" /\ ev.y # Null /\ ref[ev.y].live)
          => /\ ref[ev.y] = NewRef
             /\ OnOtherHandles(ev.y) => ref'[ev.y] = NewRef
             /\ \A s \in Singles :
                   (RefRebind(ev.y, s) /\ single[s].pointer # Null)
                   => /\ OperatorBool(ref', ev.y)
                      /\ ref'[ev.y].pointer = single[s].pointer
                      /\ single'[s].top = ev.y]_vars

\* C16: every Ref with a non-null observing pointer is reachable by next
\* links from the chain head of the Single that holds the observed value.
C16_ObserversReachableFromHead ==
    \A s \in Singles :
       (single[s].live /\ single[s].pointer # Null)
       => \A r \in Observers(ref, single[s].pointer) :
             r \in Chain(ref, single[s].top)

\* C17: no link field designates a destroyed Ref: a Single's chain head and
\* every live Ref's last and next links are null or designate a live Ref.
C17_NoLinkToDestroyedRef ==
    /\ \A s \in Singles :
          single[s].live => (single[s].top = Null \/ ref[single[s].top].live)
    /\ \A r \in Refs :
          ref[r].live
          => /\ ref[r].last = Null \/ ref[ref[r].last].live
             /\ ref[r].next = Null \/ ref[ref[r].next].live

\* C18: every Ref reachable from a Single's chain head observes that Single's
\* value, and no Ref is reachable from the chain heads of two Singles.
C18_ChainsBelongToOneOwner ==
    /\ \A s \in Singles :
          single[s].live
          => \A r \in Chain(ref, single[s].top) :
                ref[r].pointer = single[s].pointer
    /\ \A s \in Singles, t \in Singles :
          (s # t /\ single[s].live /\ single[t].live)
          => Chain(ref, single[s].top) \cap Chain(ref, single[t].top) = {}

\* C19: assigning a Ref that observes a value to itself leaves it observing
\* that value, leaves every link of every handle as it was, and makes no link
\* of the Ref designate the Ref itself.
C19_SelfAssignIsNoOp ==
    [][\A r \in Refs :
          (RefAssign(r, r) /\ ref[r].pointer # Null)
          => /\ OperatorBool(ref', r)
             /\ ref'[r].pointer = ref[r].pointer
             /\ ref'[r].last # r
             /\ ref'[r].next # r
             /\ ref' = ref
             /\ single' = single]_vars

====
